---------------------------- MODULE Spec2Model ----------------------------
(***************************************************************************)
(* A model of the strategy performance dashboard (src/app.py): the script  *)
(* that validates the two uploaded tables, computes the header metrics,    *)
(* solves XIRR by bisection and derives the monthly/yearly PnL tables, the *)
(* equity series and the capital series.                                   *)
(*                                                                         *)
(* Numbers.  Python floats are IEEE binary64.  The rates low, high and mid *)
(* of calculate_xirr are modelled exactly: a rate is a signed integer      *)
(* counting units of 2^-FracBits, and every float addition rounds to 53    *)
(* significant bits, ties to even.  TLC's integers are 32 bits wide, so    *)
(* the integers behind a rate are sequences of 15-bit limbs (least         *)
(* significant first, no leading zero limb; <<>> is zero).                 *)
(***************************************************************************)
EXTENDS Integers, Sequences, FiniteSets, TLC

---------------------------------------------------------------------------
(* Unbounded naturals as limb sequences.                                   *)

\* two limbs multiply within TLC's 31-bit positive integers
LimbBits == 30 \div 2
Base == 2^LimbBits

RECURSIVE Norm(_)
Norm(a) ==
    IF a = <<>> THEN <<>>
    ELSE IF a[Len(a)] = 0 THEN Norm(SubSeq(a, 1, Len(a) - 1)) ELSE a

RECURSIVE NatOfInt(_)
NatOfInt(n) ==
    IF n = 0 THEN <<>> ELSE <<n % Base>> \o NatOfInt(n \div Base)

Limb(a, i) == IF i <= Len(a) THEN a[i] ELSE 0

MaxOf(x, y) == IF x >= y THEN x ELSE y

RECURSIVE AddFrom(_, _, _, _)
AddFrom(a, b, i, c) ==
    IF i > MaxOf(Len(a), Len(b))
    THEN (IF c = 0 THEN <<>> ELSE <<c>>)
    ELSE LET s == Limb(a, i) + Limb(b, i) + c
         IN  <<s % Base>> \o AddFrom(a, b, i + 1, s \div Base)

NatAdd(a, b) == AddFrom(a, b, 1, 0)

RECURSIVE SubFrom(_, _, _, _)
SubFrom(a, b, i, c) ==
    IF i > Len(a) THEN <<>>
    ELSE LET s == a[i] - Limb(b, i) - c
         IN  IF s < 0 THEN <<s + Base>> \o SubFrom(a, b, i + 1, 1)
                      ELSE <<s>> \o SubFrom(a, b, i + 1, 0)

\* a - b for a >= b
NatSub(a, b) == Norm(SubFrom(a, b, 1, 0))

RECURSIVE CmpFrom(_, _, _)
CmpFrom(a, b, i) ==
    IF i = 0 THEN 0
    ELSE IF a[i] > b[i] THEN 1
    ELSE IF a[i] < b[i] THEN -1
    ELSE CmpFrom(a, b, i - 1)

\* -1, 0 or 1 as a < b, a = b, a > b
NatCmp(a, b) ==
    IF Len(a) > Len(b) THEN 1
    ELSE IF Len(a) < Len(b) THEN -1
    ELSE CmpFrom(a, b, Len(a))

RECURSIVE MulSmallFrom(_, _, _, _)
MulSmallFrom(a, k, i, c) ==
    IF i > Len(a)
    THEN (IF c = 0 THEN <<>> ELSE <<c>>)
    ELSE LET s == a[i] * k + c
         IN  <<s % Base>> \o MulSmallFrom(a, k, i + 1, s \div Base)

\* a * k for 0 <= k < Base
NatMulSmall(a, k) == IF k = 0 THEN <<>> ELSE MulSmallFrom(a, k, 1, 0)

ZeroLimbs(n) == [i \in 1..n |-> 0]

ShiftLimbs(a, n) == IF a = <<>> THEN <<>> ELSE ZeroLimbs(n) \o a

RECURSIVE MulFrom(_, _, _)
MulFrom(a, b, j) ==
    IF j > Len(b) THEN <<>>
    ELSE NatAdd(ShiftLimbs(NatMulSmall(a, b[j]), j - 1), MulFrom(a, b, j + 1))

NatMul(a, b) == MulFrom(a, b, 1)

RECURSIVE NatPow(_, _)
NatPow(a, n) == IF n = 0 THEN <<1>> ELSE NatMul(a, NatPow(a, n - 1))

RECURSIVE DivSmallFrom(_, _, _, _)
DivSmallFrom(a, d, i, r) ==
    IF i = 0 THEN <<>>
    ELSE LET x == r * Base + a[i]
         IN  DivSmallFrom(a, d, i - 1, x % d) \o <<x \div d>>

\* floor(a / d) for 0 < d <= Base
NatDivSmall(a, d) == Norm(DivSmallFrom(a, d, Len(a), 0))

\* a * 2^n
NatShl(a, n) ==
    IF n % LimbBits = 0 THEN ShiftLimbs(a, n \div LimbBits)
    ELSE ShiftLimbs(NatMulSmall(a, 2^(n % LimbBits)), n \div LimbBits)

\* floor(a / 2^n)
NatShr(a, n) ==
    LET k == n \div LimbBits
    IN  IF k >= Len(a) THEN <<>>
        ELSE NatDivSmall(SubSeq(a, k + 1, Len(a)), 2^(n % LimbBits))

RECURSIVE IntBitLen(_)
IntBitLen(n) == IF n = 0 THEN 0 ELSE 1 + IntBitLen(n \div 2)

NatBitLen(a) ==
    IF a = <<>> THEN 0 ELSE LimbBits * (Len(a) - 1) + IntBitLen(a[Len(a)])

NatIsOdd(a) == a # <<>> /\ a[1] % 2 = 1

---------------------------------------------------------------------------
(* Signed values: [neg, mag].  Zero is never negative.                     *)

Sgn(neg, mag) == [neg |-> neg /\ mag # <<>>, mag |-> mag]

SOfInt(n) == IF n < 0 THEN Sgn(TRUE, NatOfInt(-n)) ELSE Sgn(FALSE, NatOfInt(n))

SAdd(x, y) ==
    IF x.neg = y.neg THEN Sgn(x.neg, NatAdd(x.mag, y.mag))
    ELSE IF NatCmp(x.mag, y.mag) >= 0 THEN Sgn(x.neg, NatSub(x.mag, y.mag))
    ELSE Sgn(y.neg, NatSub(y.mag, x.mag))

\* -1, 0 or 1 as x < y, x = y, x > y
SCmp(x, y) ==
    IF x.neg /\ ~y.neg THEN -1
    ELSE IF ~x.neg /\ y.neg THEN 1
    ELSE IF x.neg THEN NatCmp(y.mag, x.mag)
    ELSE NatCmp(x.mag, y.mag)

SMulNat(x, a) == Sgn(x.neg, NatMul(x.mag, a))

---------------------------------------------------------------------------
(* IEEE binary64.  A float is [neg, mag, sh]: the value                    *)
(* (-1)^neg * mag * Base^sh * 2^-FracBits, with no zero limb at either end *)
(* of mag (zero is mag = <<>>, sh = 0), so equal floats are equal records. *)
(* low and high start as doubles that are multiples of 2^-53; a rounded    *)
(* sum stays on the grid of its operands and a halving needs one more bit, *)
(* so 100 passes of the loop stay within 2^-153 and sh never goes below 0. *)

\* 52 stored mantissa bits and the implicit leading one
MantBits == 52 + 1
FracLimbs == 10 + 1
FracBits == FracLimbs * LimbBits

RECURSIVE LowZeros(_, _)
LowZeros(a, i) == IF i <= Len(a) /\ a[i] = 0 THEN LowZeros(a, i + 1) ELSE i - 1

Flt(neg, mag, sh) ==
    IF mag = <<>> THEN [neg |-> FALSE, mag |-> <<>>, sh |-> 0]
    ELSE LET z == LowZeros(mag, 1)
         IN  [neg |-> neg, mag |-> SubSeq(mag, z + 1, Len(mag)), sh |-> sh + z]

\* the magnitude of x counted in units of Base^s, for s <= x.sh
Aligned(x, s) == ShiftLimbs(x.mag, x.sh - s)

MinOf(x, y) == IF x <= y THEN x ELSE y

\* -1, 0 or 1 as x < y, x = y, x > y
FCmp(x, y) ==
    LET s == MinOf(x.sh, y.sh)
    IN  SCmp(Sgn(x.neg, Aligned(x, s)), Sgn(y.neg, Aligned(y, s)))

\* round to nearest, ties to even, at MantBits significant bits
Round53(mag) ==
    LET len == NatBitLen(mag)
    IN  IF len <= MantBits THEN mag
        ELSE LET s    == len - MantBits
                 q    == NatShr(mag, s)
                 r    == NatSub(mag, NatShl(q, s))
                 half == NatShl(<<1>>, s - 1)
                 c    == NatCmp(r, half)
                 up   == c > 0 \/ (c = 0 /\ NatIsOdd(q))
             IN  NatShl(IF up THEN NatAdd(q, <<1>>) ELSE q, s)

\* float addition: the exact sum, rounded
FAdd(x, y) ==
    LET s == MinOf(x.sh, y.sh)
        e == SAdd(Sgn(x.neg, Aligned(x, s)), Sgn(y.neg, Aligned(y, s)))
    IN  Flt(e.neg, Round53(e.mag), s)

\* float division by 2: exact
FHalf(x) ==
    IF NatIsOdd(x.mag) THEN Flt(x.neg, NatShr(<<0>> \o x.mag, 1), x.sh - 1)
    ELSE Flt(x.neg, NatShr(x.mag, 1), x.sh)

\* float multiplication by a small integer: the exact product, rounded
FMulInt(x, k) == Flt(x.neg, Round53(NatMulSmall(x.mag, k)), x.sh)

FOfInt(n) == Flt(n < 0, NatOfInt(IF n < 0 THEN -n ELSE n), FracLimbs)

\* the double nearest to p / q (a decimal literal of the source)
FOfRatio(neg, p, q) ==
    LET t  == NatShl(NatOfInt(p), FracBits)
        fl == NatDivSmall(t, q)
        ex == NatMulSmall(fl, q) = t
        st == IF ex \/ NatIsOdd(fl) THEN fl ELSE NatAdd(fl, <<1>>)
    IN  Flt(neg, Round53(st), 0)

One == FOfInt(1)

---------------------------------------------------------------------------
(* calculate_xirr.  A cash flow is [date, amount]: a day number and a      *)
(* whole amount.  The modelled dates lie whole years of 365 days after     *)
(* the first one, so every exponent (d - dates.iloc[0]).days / 365 is an   *)
(* integer and (1 + rate) ** t is a product.  1 + rate is the rounded      *)
(* float sum; it lies in [0.01, 4], so it is a whole number of 2^-60.      *)
(* The quotients and their sum are kept exact (val is the fraction         *)
(* num / den, den > 0): the last-bit rounding of the float division and    *)
(* of sum() is not modelled.  Adding the amounts of one date before        *)
(* dividing gives the same exact sum.                                      *)

DaysPerYear == 365
MaxIter == 100
UnitLimbs == 2 + 2
UnitBits == UnitLimbs * LimbBits

Years(d, d0) == (d - d0) \div DaysPerYear

\* 1 + rate, in units of 2^-UnitBits
OnePlus(rate) == Aligned(FAdd(One, rate), FracLimbs - UnitLimbs)

RECURSIVE MaxYearsOf(_, _)
MaxYearsOf(cashflows, i) ==
    IF i > Len(cashflows) THEN 0
    ELSE MaxOf(Years(cashflows[i].date, cashflows[1].date),
               MaxYearsOf(cashflows, i + 1))

\* the sum of the amounts dated t years after the first date
RECURSIVE AmountAt(_, _, _)
AmountAt(cashflows, t, i) ==
    IF i > Len(cashflows) THEN 0
    ELSE (IF Years(cashflows[i].date, cashflows[1].date) = t
          THEN cashflows[i].amount ELSE 0) + AmountAt(cashflows, t, i + 1)

\* the powers base^0 .. base^T
RECURSIVE Powers(_, _)
Powers(base, T) ==
    IF T = 0 THEN <<<<1>>>>
    ELSE LET p == Powers(base, T - 1) IN Append(p, NatMul(p[T], base))

\* sum over t of amount_t * 2^(UnitBits*t) * base^(T-t): the terms
\* amount / (1+rate)^t brought to the common denominator base^T
RECURSIVE NpvTerms(_, _, _, _)
NpvTerms(cashflows, t, T, pw) ==
    IF t > T THEN SOfInt(0)
    ELSE SAdd(SMulNat(SOfInt(AmountAt(cashflows, t, 1)),
                      ShiftLimbs(pw[T - t + 1], UnitLimbs * t)),
              NpvTerms(cashflows, t + 1, T, pw))

npv(cashflows, rate) ==
    IF cashflows = <<>> THEN [num |-> SOfInt(0), den |-> <<1>>]
    ELSE LET T  == MaxYearsOf(cashflows, 1)
             pw == Powers(OnePlus(rate), T)
         IN  [num |-> NpvTerms(cashflows, 0, T, pw), den |-> pw[T + 1]]

\* abs(val) < 1e-6
AbsBelowTol(val) ==
    NatCmp(NatMulSmall(NatMulSmall(val.num.mag, 1000), 1000), val.den) < 0

\* the comparison reversed: val < 0
IsNegative(val) == val.num.neg /\ val.num.mag # <<>>

\* val > 0
IsPositive(val) == ~val.num.neg /\ val.num.mag # <<>>

Low0 == FOfRatio(TRUE, 99, 100)
High0 == FOfInt(3)

\* the midpoint without the division by 2
SumOfBounds(lo, hi) == FAdd(lo, hi)

Midpoint(lo, hi) == FHalf(FAdd(lo, hi))

\* one pass of the loop body: the midpoint, whether the function returns
\* it at once, and the bounds the next pass starts from
BisectStep(cashflows, lo, hi) ==
    LET m == Midpoint(lo, hi)
        v == npv(cashflows, m)
        p == IsPositive(v)
    IN  [mid  |-> m,
         ret  |-> AbsBelowTol(v),
         low  |-> IF p THEN m ELSE lo,
         high |-> IF p THEN hi ELSE m]

---------------------------------------------------------------------------
(* Tables.  A table is [columns, rows]: the header of the CSV file and its *)
(* rows in file order, each row a record over the columns.  A date is a    *)
(* day number, day 0 being 1 January of EpochYear; the calendar below is   *)
(* the Gregorian one, so .dt.year and .dt.month are computed, not assumed. *)

\* A number that may be missing is a record: Val(v), or NaN.  A mean is
\* the exact quotient Quot(num, den), or NaN.  None is a result not
\* computed.
NaN == [nan |-> TRUE]
Val(v) == [nan |-> FALSE, v |-> v]
Quot(n, d) == [nan |-> FALSE, num |-> n, den |-> d]
None == [none |-> TRUE]

EpochYear == 2023

IsLeap(y) == (y % 4 = 0 /\ y % 100 # 0) \/ y % 400 = 0

DaysInYear(y) == IF IsLeap(y) THEN 366 ELSE 365

MonthLengths(y) ==
    <<31, IF IsLeap(y) THEN 29 ELSE 28, 31, 30, 31, 30, 31, 31, 30, 31, 30, 31>>

month_order ==
    <<"Jan", "Feb", "Mar", "Apr", "May", "Jun",
      "Jul", "Aug", "Sep", "Oct", "Nov", "Dec">>

RECURSIVE YearFrom(_, _)
YearFrom(d, y) ==
    IF d < DaysInYear(y) THEN [year |-> y, day |-> d]
    ELSE YearFrom(d - DaysInYear(y), y + 1)

RECURSIVE MonthFrom(_, _, _)
MonthFrom(d, lens, m) ==
    IF d < lens[m] THEN m ELSE MonthFrom(d - lens[m], lens, m + 1)

\* exit_date.dt.year, exit_date.dt.month, exit_date.dt.strftime("%b")
YearOf(d) == YearFrom(d, EpochYear).year
MonthOf(d) == LET yd == YearFrom(d, EpochYear)
              IN  MonthFrom(yd.day, MonthLengths(yd.year), 1)
MonthName(d) == month_order[MonthOf(d)]

required_trade_cols ==
    {"entry_date", "exit_date", "entry_price", "exit_price",
     "quantity", "pnl", "charges", "holding_days"}

required_cap_cols == {"Date", "capital_deployed"}

\* the columns read_csv is told to parse as dates
trade_parse_dates == {"entry_date", "exit_date"}
capital_parse_dates == {"Date"}

INVESTMENT_PER_TRADE == 10000
CHARGES_PER_TRADE == 25

to_lakhs(x) == [num |-> x, den |-> 100000]

RECURSIVE SeqSum(_)
SeqSum(s) == IF s = <<>> THEN 0 ELSE Head(s) + SeqSum(Tail(s))

Column(rows, c) == [i \in 1..Len(rows) |-> rows[i][c]]

RECURSIVE SelectRows(_, _)
SelectRows(rows, idx) ==
    IF idx = <<>> THEN <<>> ELSE <<rows[Head(idx)]>> \o SelectRows(rows, Tail(idx))

\* Series.sum(): 0 for an empty series
series_sum(s) == SeqSum(s)

\* Series.mean(): NaN for an empty series, else the exact quotient
series_mean(s) ==
    IF s = <<>> THEN NaN ELSE Quot(SeqSum(s), Len(s))

\* Series.max(): NaN for an empty series
series_max(s) ==
    IF s = <<>> THEN NaN
    ELSE Val(CHOOSE v \in {s[i] : i \in 1..Len(s)} :
                 \A i \in 1..Len(s) : s[i] <= v)

\* the orders of 1..n a sort of the rows on key may produce: every order
\* with the keys ascending.  sort_values uses kind="quicksort", which
\* pandas documents as not stable, so rows with equal keys may come out
\* in any order.
SortOrders(rows, key) ==
    {p \in [1..Len(rows) -> 1..Len(rows)] :
        /\ \A i, j \in 1..Len(rows) : i # j => p[i] # p[j]
        /\ \A i, j \in 1..Len(rows) :
              i < j => rows[p[i]][key] <= rows[p[j]][key]}

sort_values(rows, key) ==
    {SelectRows(rows, p) : p \in SortOrders(rows, key)}

\* the order that keeps rows with equal keys in file order
StableOrder(rows, key) ==
    CHOOSE p \in SortOrders(rows, key) :
        \A i, j \in 1..Len(rows) :
            (i < j /\ rows[p[i]][key] = rows[p[j]][key]) => p[i] < p[j]

\* groupby(key)[c].last(): one entry per key present, keys ascending, each
\* the value of the last row of the group in row order
SortedKeys(S) ==
    CHOOSE q \in [1..Cardinality(S) -> S] :
        \A i, j \in 1..Cardinality(S) : i < j => q[i] < q[j]

\* groupby(key).first() in place of .last(): the first row of the group
FirstIndex(rows, key, k) ==
    CHOOSE i \in 1..Len(rows) :
        /\ rows[i][key] = k
        /\ \A j \in 1..Len(rows) : rows[j][key] = k => i <= j

LastIndex(rows, key, k) ==
    CHOOSE i \in 1..Len(rows) :
        /\ rows[i][key] = k
        /\ \A j \in 1..Len(rows) : rows[j][key] = k => j <= i

groupby_last(rows, key) ==
    LET keys == SortedKeys({rows[i][key] : i \in 1..Len(rows)})
    IN  [n \in 1..Len(keys) |-> rows[LastIndex(rows, key, keys[n])]]

\* groupby(keys)[c].sum() of one group: the rows that agree with row n
\* on every key
RECURSIVE SumWhere(_, _, _, _, _)
SumWhere(rows, c, keys, n, i) ==
    IF i > Len(rows) THEN 0
    ELSE (IF \A k \in keys : rows[i][k] = rows[n][k] THEN rows[i][c] ELSE 0)
         + SumWhere(rows, c, keys, n, i + 1)

---------------------------------------------------------------------------
(* The sections of the script, as operators over the loaded tables.        *)

\* HEADER METRICS
header_metrics(trade_rows, capital_rows) ==
    [total_trades  |-> Len(trade_rows),
     total_charges |-> series_sum(Column(trade_rows, "charges")),
     net_pnl       |-> series_sum(Column(trade_rows, "pnl")),
     win_rate      |->
        LET wins == series_mean([i \in 1..Len(trade_rows) |->
                        IF trade_rows[i].pnl > 0 THEN 1 ELSE 0])
        IN  IF wins = NaN THEN NaN
            ELSE Quot(wins.num * 100, wins.den),
     avg_holding   |-> series_mean(Column(trade_rows, "holding_days")),
     max_capital   |->
        series_max(Column(groupby_last(capital_rows, "Date"),
                          "capital_deployed"))]

\* the two cash flows of every trade, in row order
RECURSIVE trade_cashflows(_)
trade_cashflows(trade_rows) ==
    IF trade_rows = <<>> THEN <<>>
    ELSE LET row == Head(trade_rows)
         IN  <<[date |-> row.entry_date, amount |-> -INVESTMENT_PER_TRADE],
               [date   |-> row.exit_date,
                amount |-> row.quantity * row.exit_price - CHARGES_PER_TRADE]>>
             \o trade_cashflows(Tail(trade_rows))

\* cashflow_df: the flows sorted by date.  npv reads the first date (the
\* same in every sorted order) and adds the terms exactly, so the order
\* of flows on one date cannot change it: one sorted order stands for all.
sorted_cashflows(trade_rows) ==
    LET flows == trade_cashflows(trade_rows)
    IN  SelectRows(flows, StableOrder(flows, "date"))

\* trades with year, month and month_name added
with_calendar(rows) ==
    [i \in 1..Len(rows) |->
        [c \in DOMAIN rows[i] \cup {"year", "month", "month_name"} |->
            IF c = "year" THEN YearOf(rows[i].exit_date)
            ELSE IF c = "month" THEN MonthOf(rows[i].exit_date)
            ELSE IF c = "month_name" THEN MonthName(rows[i].exit_date)
            ELSE rows[i][c]]]

\* the grouping with "year" left out of the keys: a month's sum then
\* gathers the trades of that month of every year
monthly_pnl_across_years(rows) ==
    {[year |-> rows[i].year, month |-> rows[i].month,
      month_name |-> rows[i].month_name,
      pnl |-> SumWhere(rows, "pnl", {"month", "month_name"}, i, 1)] :
        i \in 1..Len(rows)}

\* groupby(["year", "month", "month_name"])["pnl"].sum().reset_index()
monthly_pnl(rows) ==
    {[year |-> rows[i].year, month |-> rows[i].month,
      month_name |-> rows[i].month_name,
      pnl |-> SumWhere(rows, "pnl", {"year", "month", "month_name"}, i, 1)] :
        i \in 1..Len(rows)}

\* pivot(index="year", columns="month_name", values="pnl"): a row per year
\* and a column per month name present; a pair with no group is NaN
pivot(monthly) ==
    [y \in {g.year : g \in monthly} |->
        [m \in {g.month_name : g \in monthly} |->
            IF \E g \in monthly : g.year = y /\ g.month_name = m
            THEN Val((CHOOSE g \in monthly : g.year = y /\ g.month_name = m).pnl)
            ELSE NaN]]

\* reindex(columns=cols, fill_value=v): a column already there is kept as
\* it is, a new one is filled with v
reindex_columns(frame, cols, v) ==
    [y \in DOMAIN frame |->
        [m \in {cols[k] : k \in 1..Len(cols)} |->
            IF m \in DOMAIN frame[y] THEN frame[y][m] ELSE v]]

\* sum(axis=1): NaN cells are skipped
RECURSIVE row_sum(_, _, _)
row_sum(row, cols, k) ==
    IF k > Len(cols) THEN 0
    ELSE (IF row[cols[k]] = NaN THEN 0 ELSE row[cols[k]].v)
         + row_sum(row, cols, k + 1)

with_total(frame, cols) ==
    [y \in DOMAIN frame |->
        [m \in DOMAIN frame[y] \cup {"Total"} |->
            IF m = "Total" THEN Val(row_sum(frame[y], cols, 1))
            ELSE frame[y][m]]]

build_pnl_pivot(rows) ==
    with_total(reindex_columns(pivot(monthly_pnl(rows)), month_order, Val(0)),
               month_order)

\* trades["pnl"].cumsum() and the equity frame
with_equity(rows) ==
    [i \in 1..Len(rows) |->
        [c \in DOMAIN rows[i] \cup {"equity", "equity_lakhs"} |->
            LET eq == SeqSum(SubSeq(Column(rows, "pnl"), 1, i))
            IN  IF c = "equity" THEN eq
                ELSE IF c = "equity_lakhs" THEN to_lakhs(eq)
                ELSE rows[i][c]]]

build_equity_df(rows) ==
    [i \in 1..Len(rows) |->
        [Date |-> rows[i].exit_date, equity_lakhs |-> rows[i].equity_lakhs]]

\* capital.groupby("Date").last().reset_index() with capital_lakhs
build_capital_df(capital_rows) ==
    LET g == groupby_last(capital_rows, "Date")
    IN  [i \in 1..Len(g) |->
            [Date |-> g[i].Date, capital_deployed |-> g[i].capital_deployed,
             capital_lakhs |-> to_lakhs(g[i].capital_deployed)]]

\* trades.groupby("year")["pnl"].sum().reset_index()
build_yearly_pnl(rows) ==
    [y \in {rows[i].year : i \in 1..Len(rows)} |->
        LET n == CHOOSE i \in 1..Len(rows) : rows[i].year = y
        IN  SumWhere(rows, "pnl", {"year"}, n, 1)]

---------------------------------------------------------------------------
(* State.                                                                  *)

VARIABLES
    trade_file,     \* the uploaded trade_log.csv: a table, or None
    capital_file,   \* the uploaded capital_timeline.csv: a table, or None
    pc,             \* the section of the script about to run
    trades,         \* the trades frame
    capital,        \* the capital frame
    message,        \* what st.info / st.error showed, or the exception raised
    rendered,       \* the elements drawn so far
    metrics,        \* the header metrics
    cashflow_df,    \* the argument of calculate_xirr
    xirr,           \* calculate_xirr(cashflow_df) * 100
    pnl_pivot,
    equity_df,
    capital_df,
    yearly_pnl,
    low, high, mid, \* the locals of calculate_xirr
    iters,          \* passes of its loop so far: evaluations of npv
    scale,          \* the factor applied to the amounts for the second call
    rets            \* the rates the calls have returned

vars == <<trade_file, capital_file, pc, trades, capital, message, rendered,
          metrics, cashflow_df, xirr, pnl_pivot, equity_df, capital_df,
          yearly_pnl, low, high, mid, iters, scale, rets>>

inputVars == <<trade_file, capital_file>>
frameVars == <<trades, capital>>
tableVars == <<pnl_pivot, equity_df, capital_df, yearly_pnl>>
loopVars == <<low, high, mid, iters, scale, rets>>
pipelineVars ==
    <<trade_file, capital_file, trades, capital, message, rendered, metrics,
      xirr, pnl_pivot, equity_df, capital_df, yearly_pnl>>

---------------------------------------------------------------------------
(* Inputs.                                                                 *)

MaxTrades == 2
MaxCapRows == 2
MaxFlows == 2

\* 1 Jan 2023, 1 Jan 2024 and 31 Dec 2024: whole years of 365 days apart
TradeDates == {0, DaysPerYear, 2 * DaysPerYear}
PnlValues == {-300, 500}
CapDates == {0, 1}
CapValues == {100000, 200000}

\* a closed trade of one unit bought at INVESTMENT_PER_TRADE on day 0
TradeRow(x, p) ==
    [entry_date |-> 0, exit_date |-> x, entry_price |-> INVESTMENT_PER_TRADE,
     exit_price |-> INVESTMENT_PER_TRADE + p + CHARGES_PER_TRADE,
     quantity |-> 1, pnl |-> p, charges |-> CHARGES_PER_TRADE,
     holding_days |-> x]

TradeRows == {TradeRow(x, p) : x \in TradeDates, p \in PnlValues}

CapitalRow(d, c) == [Date |-> d, capital_deployed |-> c]

CapitalRows == {CapitalRow(d, c) : d \in CapDates, c \in CapValues}

SeqsUpTo(S, n) == UNION {[1..k -> S] : k \in 0..n}

Restrict(row, cols) == [c \in cols |-> row[c]]

\* a file with every required column and any rows, or a file that lacks
\* columns; the rows of the latter are never read, one row stands for them
TradeTables ==
    {[columns |-> required_trade_cols, rows |-> r] : r \in SeqsUpTo(TradeRows, MaxTrades)}
    \cup {[columns |-> cols,
           rows |-> <<Restrict(TradeRow(DaysPerYear, 500), cols)>>] :
             cols \in (SUBSET required_trade_cols) \ {required_trade_cols}}

CapitalTables ==
    {[columns |-> required_cap_cols, rows |-> r] : r \in SeqsUpTo(CapitalRows, MaxCapRows)}
    \cup {[columns |-> cols,
           rows |-> <<Restrict(CapitalRow(0, 100000), cols)>>] :
             cols \in (SUBSET required_cap_cols) \ {required_cap_cols}}

\* The trades and the capital observations never meet in one computation,
\* so the rows of the two files are varied one file at a time: in every
\* pair of complete files one of the two is a reference file.
RefTradeRows == {<<>>, <<TradeRow(DaysPerYear, 500)>>}
RefCapitalRows == {<<CapitalRow(0, 200000), CapitalRow(0, 100000)>>}

Complete(file, cols) == file # None /\ file.columns = cols

UploadedPairs ==
    {f \in ({None} \cup TradeTables) \X ({None} \cup CapitalTables) :
        (Complete(f[1], required_trade_cols) /\ Complete(f[2], required_cap_cols))
            => (f[1].rows \in RefTradeRows \/ f[2].rows \in RefCapitalRows)}

Init ==
    /\ \E f \in UploadedPairs : trade_file = f[1] /\ capital_file = f[2]
    /\ pc = "validation"
    /\ trades = None /\ capital = None
    /\ message = None
    /\ rendered = {}
    /\ metrics = None /\ cashflow_df = None /\ xirr = None
    /\ pnl_pivot = None /\ equity_df = None /\ capital_df = None
    /\ yearly_pnl = None
    /\ low = None /\ high = None /\ mid = None
    /\ iters = 0 /\ scale = 1 /\ rets = <<>>

---------------------------------------------------------------------------
(* The script, section by section.                                         *)

\* VALIDATION: both files must be uploaded
Validation ==
    /\ pc = "validation"
    /\ IF trade_file = None \/ capital_file = None
       THEN /\ message' = [kind |-> "info"]
            /\ rendered' = rendered \cup {"info"}
            /\ pc' = "stopped"
       ELSE /\ pc' = "load"
            /\ UNCHANGED <<message, rendered>>
    /\ UNCHANGED <<inputVars, frameVars, metrics, cashflow_df, xirr,
                   tableVars, loopVars>>

\* LOAD DATA: read_csv raises ValueError when a column named in
\* parse_dates is not in the file; trade_log.csv is read first
LoadData ==
    /\ pc = "load"
    /\ IF ~(trade_parse_dates \subseteq trade_file.columns)
       THEN /\ message' = [kind |-> "exception", type |-> "ValueError",
                           file |-> "trade_log.csv",
                           missing |-> trade_parse_dates \ trade_file.columns]
            /\ pc' = "crashed"
            /\ UNCHANGED frameVars
       ELSE IF ~(capital_parse_dates \subseteq capital_file.columns)
       THEN /\ message' = [kind |-> "exception", type |-> "ValueError",
                           file |-> "capital_timeline.csv",
                           missing |-> capital_parse_dates \ capital_file.columns]
            /\ pc' = "crashed"
            /\ UNCHANGED frameVars
       ELSE /\ trades' = trade_file
            /\ capital' = capital_file
            /\ pc' = "sanity"
            /\ UNCHANGED message
    /\ UNCHANGED <<inputVars, rendered, metrics, cashflow_df, xirr,
                   tableVars, loopVars>>

\* SANITY CHECKS
SanityChecks ==
    /\ pc = "sanity"
    /\ IF ~(required_trade_cols \subseteq trades.columns)
       THEN /\ message' = [kind |-> "error", file |-> "trade_log.csv",
                           missing |-> required_trade_cols \ trades.columns]
            /\ rendered' = rendered \cup {"error"}
            /\ pc' = "stopped"
       ELSE IF ~(required_cap_cols \subseteq capital.columns)
       THEN /\ message' = [kind |-> "error", file |-> "capital_timeline.csv",
                           missing |-> required_cap_cols \ capital.columns]
            /\ rendered' = rendered \cup {"error"}
            /\ pc' = "stopped"
       ELSE /\ pc' = "header"
            /\ UNCHANGED <<message, rendered>>
    /\ UNCHANGED <<inputVars, frameVars, metrics, cashflow_df, xirr,
                   tableVars, loopVars>>

\* HEADER METRICS
HeaderMetrics ==
    /\ pc = "header"
    /\ metrics' = header_metrics(trades.rows, capital.rows)
    /\ pc' = "xirr"
    /\ UNCHANGED <<inputVars, frameVars, message, rendered, cashflow_df,
                   xirr, tableVars, loopVars>>

\* XIRR
Xirr ==
    /\ pc = "xirr"
    /\ cashflow_df' = sorted_cashflows(trades.rows)
    /\ low' = Low0 /\ high' = High0 /\ mid' = None
    /\ iters' = 0
    /\ pc' = "loop"
    /\ UNCHANGED <<inputVars, frameVars, message, rendered, metrics, xirr,
                   tableVars, scale, rets>>

\* one pass of "for _ in range(100)": return mid at once when abs(val) is
\* below 1e-6, else move one bound; after the last pass, return mid
LoopPass ==
    /\ pc = "loop"
    /\ iters < MaxIter
    /\ LET s == BisectStep(cashflow_df, low, high)
       IN  /\ mid' = s.mid
           /\ iters' = iters + 1
           /\ IF s.ret
              THEN /\ pc' = "returned"
                   /\ UNCHANGED <<low, high>>
              ELSE /\ low' = s.low
                   /\ high' = s.high
                   /\ pc' = IF iters + 1 = MaxIter THEN "returned" ELSE "loop"
    /\ UNCHANGED <<pipelineVars, cashflow_df, scale, rets>>

\* xirr = calculate_xirr(cashflows) * 100
XirrResult ==
    /\ pc = "returned"
    /\ xirr' = FMulInt(mid, 100)
    /\ pc' = "display"
    /\ UNCHANGED <<inputVars, frameVars, message, rendered, metrics,
                   cashflow_df, tableVars, loopVars>>

\* DISPLAY HEADER METRICS
DisplayHeaderMetrics ==
    /\ pc = "display"
    /\ rendered' = rendered \cup {"Total Trades", "Total Charges", "Net P&L",
                                  "Win Rate", "Avg Holding Days",
                                  "Max Capital Deployed", "Strategy XIRR"}
    /\ pc' = "monthly"
    /\ UNCHANGED <<inputVars, frameVars, message, metrics, cashflow_df,
                   xirr, tableVars, loopVars>>

\* MONTHLY / YEARLY PNL.  A file with a header and no rows gives columns
\* that read_csv may leave as plain objects, on which .dt raises
\* AttributeError, or may parse as dates: both are kept.
MonthlyPnl ==
    /\ pc = "monthly"
    /\ \/ /\ trades.rows = <<>>
          /\ message' = [kind |-> "exception", type |-> "AttributeError"]
          /\ pc' = "crashed"
          /\ UNCHANGED <<trades, pnl_pivot, rendered>>
       \/ \E sorted \in sort_values(trades.rows, "exit_date") :
             /\ trades' = [trades EXCEPT !.rows = with_calendar(sorted)]
             /\ pnl_pivot' = build_pnl_pivot(trades'.rows)
             /\ rendered' = rendered \cup {"Monthly & Yearly PnL Summary"}
             /\ pc' = "equity"
             /\ UNCHANGED message
    /\ UNCHANGED <<inputVars, capital, metrics, cashflow_df, xirr,
                   equity_df, capital_df, yearly_pnl, loopVars>>

\* EQUITY CURVE
EquityCurve ==
    /\ pc = "equity"
    /\ trades' = [trades EXCEPT !.rows = with_equity(trades.rows)]
    /\ equity_df' = build_equity_df(trades'.rows)
    /\ rendered' = rendered \cup {"Equity Curve"}
    /\ pc' = "capital"
    /\ UNCHANGED <<inputVars, capital, message, metrics, cashflow_df, xirr,
                   pnl_pivot, capital_df, yearly_pnl, loopVars>>

\* CAPITAL DEPLOYMENT CURVE
CapitalCurve ==
    /\ pc = "capital"
    /\ capital_df' = build_capital_df(capital.rows)
    /\ rendered' = rendered \cup {"Capital Deployment Curve"}
    /\ pc' = "yearly"
    /\ UNCHANGED <<inputVars, frameVars, message, metrics, cashflow_df,
                   xirr, pnl_pivot, equity_df, yearly_pnl, loopVars>>

\* YEARLY PNL
YearlyPnl ==
    /\ pc = "yearly"
    /\ yearly_pnl' = build_yearly_pnl(trades.rows)
    /\ rendered' = rendered \cup {"Yearly PnL"}
    /\ pc' = "done"
    /\ UNCHANGED <<inputVars, frameVars, message, metrics, cashflow_df,
                   xirr, pnl_pivot, equity_df, capital_df, loopVars>>

Next ==
    \/ Validation
    \/ LoadData
    \/ SanityChecks
    \/ HeaderMetrics
    \/ Xirr
    \/ LoopPass
    \/ XirrResult
    \/ DisplayHeaderMetrics
    \/ MonthlyPnl
    \/ EquityCurve
    \/ CapitalCurve
    \/ YearlyPnl

Spec == Init /\ [][Next]_vars

---------------------------------------------------------------------------
(* calculate_xirr on its own, one pass of the loop per step: the function  *)
(* is called on a cash-flow frame and then on the same frame with every    *)
(* amount multiplied by scale.                                             *)

FlowDates == {0, DaysPerYear}
FlowAmounts == {-100, 110, 500}
Scales == {10}

CashFlows == {[date |-> d, amount |-> a] : d \in FlowDates, a \in FlowAmounts}

\* non-empty frames in date order, as sort_values("date") leaves them
CashflowFrames ==
    {f \in SeqsUpTo(CashFlows, MaxFlows) :
        /\ f # <<>>
        /\ \A i \in 1..(Len(f) - 1) : f[i].date <= f[i + 1].date}

Scaled(cashflows, k) ==
    [i \in 1..Len(cashflows) |->
        [date |-> cashflows[i].date, amount |-> k * cashflows[i].amount]]

InitXirr ==
    /\ trade_file = None /\ capital_file = None
    /\ trades = None /\ capital = None
    /\ message = None
    /\ rendered = {}
    /\ metrics = None /\ xirr = None
    /\ pnl_pivot = None /\ equity_df = None /\ capital_df = None
    /\ yearly_pnl = None
    /\ cashflow_df \in CashflowFrames
    /\ scale \in Scales
    /\ pc = "loop"
    /\ low = Low0 /\ high = High0 /\ mid = None
    /\ iters = 0
    /\ rets = <<>>

\* the first call has returned: call again on the scaled amounts
CallScaled ==
    /\ pc = "returned"
    /\ rets = <<>>
    /\ rets' = <<mid>>
    /\ cashflow_df' = Scaled(cashflow_df, scale)
    /\ low' = Low0 /\ high' = High0 /\ mid' = None
    /\ iters' = 0
    /\ pc' = "loop"
    /\ UNCHANGED <<pipelineVars, scale>>

\* the second call has returned
Finish ==
    /\ pc = "returned"
    /\ Len(rets) = 1
    /\ rets' = Append(rets, mid)
    /\ pc' = "finished"
    /\ UNCHANGED <<pipelineVars, cashflow_df, low, high, mid, iters, scale>>

NextXirr == LoopPass \/ CallScaled \/ Finish

SpecXirr == InitXirr /\ [][NextXirr]_vars

---------------------------------------------------------------------------
(* Claims about the script (specification Spec).                           *)

Uploaded == trade_file # None /\ capital_file # None

MissingTradeCols == required_trade_cols \ trade_file.columns
MissingCapitalCols == required_cap_cols \ capital_file.columns

NothingProduced ==
    /\ metrics = None /\ xirr = None /\ cashflow_df = None
    /\ pnl_pivot = None /\ yearly_pnl = None
    /\ equity_df = None /\ capital_df = None

Ended == pc \in {"done", "stopped", "crashed"}

PastChecks ==
    pc \in {"header", "xirr", "loop", "returned", "display", "monthly", "equity", "capital",
            "yearly", "done"}

\* the years among the exit dates of the uploaded trades
ExitYears ==
    {YearOf(trade_file.rows[i].exit_date) : i \in 1..Len(trade_file.rows)}

\* the uploaded trades that exited in month k of year y
ExitedIn(y, k) ==
    {i \in 1..Len(trade_file.rows) :
        /\ YearOf(trade_file.rows[i].exit_date) = y
        /\ MonthOf(trade_file.rows[i].exit_date) = k}

\* C1: when a required column is absent from either uploaded table, the run
\* ends with the schema error that names the file and exactly its missing
\* columns (the trade file's when it lacks any, else the capital file's),
\* and nothing is computed: no header metric, XIRR, table or series.
C1_SchemaErrorNamesMissingColumns ==
    (Uploaded /\ (MissingTradeCols # {} \/ MissingCapitalCols # {})) =>
        /\ ~PastChecks
        /\ NothingProduced
        /\ Ended =>
             message = IF MissingTradeCols # {}
                       THEN [kind |-> "error", file |-> "trade_log.csv",
                             missing |-> MissingTradeCols]
                       ELSE [kind |-> "error", file |-> "capital_timeline.csv",
                             missing |-> MissingCapitalCols]

\* the sum of the twelve month cells of a pivot row, a missing cell
\* counting for nothing
CellSum(row) ==
    SeqSum([k \in 1..Len(month_order) |->
               IF row[month_order[k]] = NaN THEN 0 ELSE row[month_order[k]].v])

\* C2: for every year among the exit dates, the pivot has a row whose Total
\* equals the sum of the row's twelve month cells and equals the yearly PnL
\* of that year from the group-by-year aggregation.
C2_TotalIsRowSumAndYearlyPnl ==
    pc = "done" =>
        /\ DOMAIN pnl_pivot = ExitYears
        /\ DOMAIN yearly_pnl = ExitYears
        /\ \A y \in ExitYears :
              /\ pnl_pivot[y]["Total"] = Val(CellSum(pnl_pivot[y]))
              /\ pnl_pivot[y]["Total"] = Val(yearly_pnl[y])

\* C2 witness: a finished run whose pivot has a year with trades in two
\* months
C2_Witness ==
    /\ pc = "done"
    /\ \E y \in ExitYears :
          /\ ExitedIn(y, 1) # {} /\ ExitedIn(y, 12) # {}
          /\ pnl_pivot[y]["Total"].v # pnl_pivot[y]["Jan"].v

\* C3: every cell of the pivot for a year row and a month in which no trade
\* exited is the number 0, whether or not another year has trades in that
\* month.
C3_EmptyCellsAreZero ==
    pc = "done" =>
        \A y \in DOMAIN pnl_pivot : \A k \in 1..Len(month_order) :
            ExitedIn(y, k) = {} => pnl_pivot[y][month_order[k]] = Val(0)

\* the index of the last uploaded capital observation dated d
LastObservation(d) ==
    CHOOSE j \in 1..Len(capital_file.rows) :
        /\ capital_file.rows[j].Date = d
        /\ \A n \in (j + 1)..Len(capital_file.rows) : capital_file.rows[n].Date # d

\* C4: the capital series has exactly one point per distinct date of the
\* input, in ascending date order, each carrying the value of the last
\* input observation of that date in row order; the maximum capital
\* deployed is the maximum of these values.
C4_CapitalSeriesLastPerDate ==
    pc = "done" =>
        LET obs   == capital_file.rows
            dates == {obs[j].Date : j \in 1..Len(obs)}
        IN  /\ Len(capital_df) = Cardinality(dates)
            /\ {capital_df[i].Date : i \in 1..Len(capital_df)} = dates
            /\ \A i, j \in 1..Len(capital_df) :
                  i < j => capital_df[i].Date < capital_df[j].Date
            /\ \A i \in 1..Len(capital_df) :
                  capital_df[i].capital_deployed
                      = obs[LastObservation(capital_df[i].Date)].capital_deployed
            /\ IF obs = <<>> THEN metrics.max_capital = NaN
               ELSE /\ \E i \in 1..Len(capital_df) :
                          metrics.max_capital = Val(capital_df[i].capital_deployed)
                    /\ \A i \in 1..Len(capital_df) :
                          capital_df[i].capital_deployed <= metrics.max_capital.v

\* C4 witness: a finished run on two observations of one date, the first
\* the larger: the series holds the second, and it is the maximum shown
C4_Witness ==
    /\ pc = "done"
    /\ Len(capital_file.rows) = 2
    /\ capital_file.rows[1].Date = capital_file.rows[2].Date
    /\ capital_file.rows[1].capital_deployed > capital_file.rows[2].capital_deployed
    /\ Len(capital_df) = 1
    /\ metrics.max_capital = Val(capital_file.rows[2].capital_deployed)

\* C8: on a trade table with the required columns and no rows, the header
\* shows win rate 0 and average holding days 0, and no XIRR is computed
\* from the empty cash-flow frame.
C8_ZeroTradesFallBackToZero ==
    (Uploaded /\ "Win Rate" \in rendered /\ trade_file.rows = <<>>) =>
        /\ metrics.win_rate # NaN /\ metrics.win_rate.num = 0
        /\ metrics.avg_holding # NaN /\ metrics.avg_holding.num = 0
        /\ xirr = None

\* C9: the equity series lists the trades by exit date ascending, trades
\* of one exit date in input order, each point the running sum of pnl in
\* that order; the last point is the net PnL of the header.
C9_EquityInStableExitOrder ==
    pc = "done" =>
        LET rows == trade_file.rows
            ord  == StableOrder(rows, "exit_date")
        IN  /\ Len(equity_df) = Len(rows)
            /\ \A i \in 1..Len(rows) :
                  /\ equity_df[i].Date = rows[ord[i]].exit_date
                  /\ equity_df[i].equity_lakhs
                        = to_lakhs(SeqSum([k \in 1..i |-> rows[ord[k]].pnl]))
            /\ rows # <<>> =>
                  equity_df[Len(rows)].equity_lakhs = to_lakhs(metrics.net_pnl)

---------------------------------------------------------------------------
(* Claims about calculate_xirr (specification SpecXirr).                   *)

\* NPV has one sign at both bounds of the interval: no root is bracketed
NotBracketed(cashflows) ==
    LET a == npv(cashflows, Low0).num
        b == npv(cashflows, High0).num
    IN  a.mag # <<>> /\ b.mag # <<>> /\ a.neg = b.neg

\* C5: when NPV has the same sign at -0.99 and at 3.0, calculate_xirr ends
\* in NoConvergenceError and returns no rate.
C5_NoRateWithoutBracket ==
    pc \in {"returned", "finished"} => ~NotBracketed(cashflow_df)

\* x * k, exactly
ExactTimes(x, k) == Flt(x.neg, NatMulSmall(x.mag, k), x.sh)

KnownRateFrame ==
    <<[date |-> 0, amount |-> -100], [date |-> DaysPerYear, amount |-> 110]>>

\* C6: on -100 at day 0 and +110 at day 365 the function returns, within
\* its 100 passes, a rate r with |r - 0.10| <= 1e-4, that is
\* 999 <= 10000 * r <= 1001.
C6_RecoversTenPercent ==
    (pc = "returned" /\ cashflow_df = KnownRateFrame) =>
        /\ iters <= MaxIter
        /\ FCmp(FOfInt(999), ExactTimes(mid, 10000)) <= 0
        /\ FCmp(ExactTimes(mid, 10000), FOfInt(1001)) <= 0

\* C6 witness: the call on these two flows has returned from inside the loop
C6_Witness ==
    /\ pc = "returned"
    /\ cashflow_df = KnownRateFrame
    /\ iters < MaxIter

\* C7: the call on the amounts multiplied by a factor k > 0 returns the
\* rate the call on the original amounts returned.
C7_ScaleInvariant ==
    pc = "finished" => rets[2] = rets[1]

\* the percentage shown: the rate times 100
Percent(rate) == FMulInt(rate, 100)

\* a pass that moved a bound moved exactly one, to mid: low when
\* NPV(mid) > 0, high otherwise
C10_OneBoundMovesToMid ==
    (pc = "loop" /\ pc' \in {"loop", "returned"} /\ iters' = iters + 1
     /\ <<low', high'>> # <<low, high>>) =>
        IF IsPositive(npv(cashflow_df, mid'))
        THEN low' = mid' /\ high' = high
        ELSE high' = mid' /\ low' = low

===========================================================================
